---- MODULE Spec2Model ----
(***************************************************************************)
(* Model of localizer/hands_on_demo.py: the HandsOnDemo interactive loop.  *)
(* One iteration of run() is split at the calls it makes (_train,          *)
(* trainer.run, _load_model, _detect, _new_model, imshow) so that the      *)
(* order of these calls is observable.  An uncaught Python exception, the  *)
(* sys.exit and the break end the process: pc = "done" and exc names why.  *)
(* Lengths are in pixels.  Calibration positions are stored doubled        *)
(* (half-pixel units) because positions[0] is s/2; angles are stored as    *)
(* <<i, n>> for 2*pi/n*i.  The scale factor is held as the operands of    *)
(* its division; its products are computed in IEEE double arithmetic.      *)
(***************************************************************************)
EXTENDS Integers, Sequences, FiniteSets, TLC

VARIABLES pc, exc, ret, key, mode, image_idx, dataset, localizer,
          scale_factor, view_shape, camera_image, view_image, window,
          dataset_file, image_files, traceback, session, writes, trains,
          train_pending, trainer_failed, object_size, camera_frame

vars == <<pc, exc, ret, key, mode, image_idx, dataset, localizer,
          scale_factor, view_shape, camera_image, view_image, window,
          dataset_file, image_files, traceback, session, writes, trains,
          train_pending, trainer_failed, object_size, camera_frame>>

\* traceback is the kind of the traceback.print_exc() output since the last
\* key poll ("none", "load" or "predict").  session, writes, trains and
\* train_pending are history variables: the number of new-session keys so
\* far, the dataset-file writes and the trainings started by a completed
\* collection since the last new-session key, and whether _train has been
\* called and no _load_model has run since; trainer_failed is whether the
\* external trainer has raised.  object_size is cfg['object_size'];
\* camera_frame is the result of the last camera.read().

\* ---------------------------------------------------------------- bounds
\* Number of times the new-session key is accepted in one run.
MaxSessions == 2
\* Objects whose marker one call of _detect draws.
MaxObjects == 1

\* ------------------------------------------------------------- constants
\* cfg['object_size'] of the template configuration (60 in the documented
\* scenario).
ObjectSize == 60
\* len(positions): the number of calibration poses.
N == 5
\* The caption margin and the cap on the canvas width.
CaptionMargin == 100
MaxViewWidth == 640

\* Python's None and a present value.
None == << >>
Some(x) == <<x>>
Val(o) == o[1]

\* Mode.DETECT / Mode.NEW_MODEL
DETECT == "DETECT"
NEW_MODEL == "NEW_MODEL"

\* Configured object sizes: the documented one; two whose scale is not a
\* binary fraction, so that the double products are inexact (with 51 the
\* scaled height of a 720x960 frame falls just below the tie 229.5, with 82
\* the scaled sides fall just below 369 and 492); and one whose desired
\* length object_size * 6 exceeds the cap on the canvas width.
ObjectSizes == {51, ObjectSize, 82, 110}

\* cv2.waitKey(1): 'q', 'n', 'r', ' ' or -1 (no key).
Keys == {"q", "n", "r", " ", "none"}

\* camera.read(): no frame, a frame that is not h x w x 3, or a colour frame
\* of shape <<height, width>>.
FrameShapes == {<<480, 640>>, <<720, 960>>}
Frames == {[kind |-> "none", shape |-> None], [kind |-> "gray", shape |-> None]}
          \cup {[kind |-> "color", shape |-> sh] : sh \in FrameShapes}
\* camera_frame before the first camera.read().
Unread == [kind |-> "unread", shape |-> None]

Max(a, b) == IF a >= b THEN a ELSE b
Min(a, b) == IF a <= b THEN a ELSE b

\* ---- IEEE-754 binary64 arithmetic, as Python and numpy floats do it.
\* A binary number is [bits, e]: the natural number with the binary digits
\* bits (most significant first) times 2^e.  Every operation forms the exact
\* result and rounds it to 53 significant bits, ties to even.
\* Significant bits of a double.
Mantissa == 53

\* The w binary digits of a natural number below 2^w.
Digits(q, w) == [i \in 1..w |-> (q \div 2^(w - i)) % 2]

\* The binary digits of a natural number below 2^30, << >> for 0.
BitsOf(n) ==
    Digits(n, CHOOSE w \in 0..30 : n < 2^w /\ (w = 0 \/ n >= 2^(w - 1)))

RECURSIVE IntOf(_)
\* The natural number with these binary digits.
IntOf(bits) ==
    IF bits = << >> THEN 0
    ELSE 2 * IntOf(SubSeq(bits, 1, Len(bits) - 1)) + bits[Len(bits)]

AnyOne(bits) == \E i \in 1..Len(bits) : bits[i] = 1

\* Without leading zeros.
Strip(bits) ==
    IF ~AnyOne(bits) THEN << >>
    ELSE SubSeq(bits,
                CHOOSE i \in 1..Len(bits) :
                    bits[i] = 1 /\ \A j \in 1..(i - 1) : bits[j] = 0,
                Len(bits))

\* The digits of the number plus one.
Incr(bits) ==
    IF \A i \in 1..Len(bits) : bits[i] = 1
    THEN <<1>> \o [i \in 1..Len(bits) |-> 0]
    ELSE LET z == CHOOSE i \in 1..Len(bits) :
                      bits[i] = 0 /\ \A j \in (i + 1)..Len(bits) : bits[j] = 1
         IN  [i \in 1..Len(bits) |-> IF i < z THEN bits[i] ELSE IF i = z THEN 1 ELSE 0]

\* Round an exact binary number to a double: nearest, ties to even.
RoundDouble(x) ==
    LET b == Strip(x.bits)
        L == Len(b)
    IN  IF L <= Mantissa THEN [bits |-> b, e |-> x.e]
        ELSE LET top == SubSeq(b, 1, Mantissa)
                 up == /\ b[Mantissa + 1] = 1
                       /\ (AnyOne(SubSeq(b, Mantissa + 2, L)) \/ top[Mantissa] = 1)
             IN  [bits |-> IF up THEN Incr(top) ELSE top, e |-> x.e + (L - Mantissa)]

RECURSIVE QuotBits(_, _, _)
\* 8k binary digits of rem/den after the point (rem < den < 2^15), eight at
\* a time, then one digit that is 1 iff the rest is not zero.
QuotBits(rem, den, k) ==
    IF k = 0 THEN <<IF rem = 0 THEN 0 ELSE 1>>
    ELSE Digits((rem * 256) \div den, 8) \o QuotBits((rem * 256) % den, den, k - 1)

\* Digits generated after the point, in eights: enough for 53 digits, a guard
\* digit and the leading zeros of any quotient of two integers below 2^15.
QuotDigits == 8 * ((Mantissa + 19) \div 8)

\* The double a / b of two positive integers below 2^15.
FlDiv(a, b) ==
    RoundDouble([bits |-> BitsOf(a \div b) \o QuotBits(a % b, b, QuotDigits \div 8),
                 e |-> -(QuotDigits + 1)])

RECURSIVE MulBits(_, _, _)
\* The digits of bits * n + carry (n < 2^15), eight digits at a time from the
\* least significant end.
MulBits(bits, n, carry) ==
    IF bits = << >> THEN BitsOf(carry)
    ELSE LET L == Len(bits)
             w == Min(8, L)
             t == IntOf(SubSeq(bits, L - w + 1, L)) * n + carry
         IN  MulBits(SubSeq(bits, 1, L - w), n, t \div 2^w) \o Digits(t % 2^w, w)

\* The double x * n, n a natural number.
FlMul(x, n) == RoundDouble([bits |-> MulBits(x.bits, n, 0), e |-> x.e])

\* The integer part and the digits after the point of a double below 2^31
\* (e <= 0).
IntPart(x) == IntOf(SubSeq(x.bits, 1, Len(x.bits) + x.e))
FracBits(x) ==
    LET k == -x.e
        L == Len(x.bits)
    IN  IF L >= k THEN SubSeq(x.bits, L - k + 1, L)
        ELSE [i \in 1..(k - L) |-> 0] \o x.bits

\* The double x + c, c a natural number.
FlAdd(x, c) ==
    RoundDouble([bits |-> BitsOf(IntPart(x) + c) \o FracBits(x), e |-> x.e])

\* int(x) of a non-negative double.
Trunc(x) == IntPart(x)

\* cvRound(x): the nearest integer, ties to even.
CvRound(x) ==
    LET i == IntPart(x)
        f == FracBits(x)
    IN  IF f = << >> \/ f[1] = 0 THEN i
        ELSE IF AnyOne(Tail(f)) THEN i + 1
        ELSE IF i % 2 = 0 THEN i ELSE i + 1

\* desired_length / actual_length: scale_factor holds the operands
\* <<num, den>> of the division and stands for the double num / den.
ScaleFactor(shape) == <<object_size * 6, Max(shape[1], shape[2])>>

\* The double self._scale_factor.
Double(sf) == FlDiv(sf[1], sf[2])

\* The products sf * n of the modelled object sizes and frame sides, computed
\* once and held as an explicit function.
Scales == {<<s * 6, Max(f[1], f[2])>> : s \in ObjectSizes, f \in FrameShapes}
Sides == {f[i] : f \in FrameShapes, i \in 1..2}
Products == [p \in Scales \X Sides |-> FlMul(Double(p[1]), p[2])] @@ << >>

\* The double sf * n.
Product(sf, n) ==
    IF <<sf, n>> \in Scales \X Sides THEN Products[<<sf, n>>] ELSE FlMul(Double(sf), n)

\* int(sf * n).
IntScaled(sf, n) == Trunc(Product(sf, n))

\* int(sf * n + c).
IntScaledPlus(sf, n, c) == Trunc(FlAdd(Product(sf, n), c))

\* cvRound(sf * n), the size cv2.resize gives a side of n pixels.
RoundScaled(sf, n) == CvRound(Product(sf, n))

\* The canvas is as wide as the truncated scaled width, without the + 1.
ViewShapeMut(sf, shape) ==
    <<IntScaledPlus(sf, shape[1], CaptionMargin),
      Min(IntScaled(sf, shape[2]), MaxViewWidth)>>

\* self._view_shape, without the channel count.
ViewShape(sf, shape) ==
    <<IntScaledPlus(sf, shape[1], CaptionMargin),
      Min(IntScaled(sf, shape[2]) + 1, MaxViewWidth)>>

\* Shape of cv2.resize(camera_frame, (0, 0), fx=sf, fy=sf).
Resized(sf, shape) == <<RoundScaled(sf, shape[1]), RoundScaled(sf, shape[2])>>

\* view[:h, :w, :] = camera_image succeeds only if the slice has the shape
\* of camera_image.
Fits(vs, cs) == cs[1] <= vs[1] /\ cs[2] <= vs[2]

\* The corners are inset by half the object size.
PositionsMut(s) ==
    << <<s[2], s[1]>>,
       <<object_size, object_size>>,
       <<2 * s[2] - object_size, object_size>>,
       <<2 * s[2] - object_size, 2 * s[1] - object_size>>,
       <<object_size, 2 * s[1] - object_size>> >>

\* positions of _new_model, doubled; s = camera_image.shape = <<rows, cols>>.
Positions(s) ==
    << <<s[2], s[1]>>,
       <<2 * object_size, 2 * object_size>>,
       <<2 * (s[2] - object_size), 2 * object_size>>,
       <<2 * (s[2] - object_size), 2 * (s[1] - object_size)>>,
       <<2 * object_size, 2 * (s[1] - object_size)>> >>

\* Off by one: the index len is accepted.
ListIndexOKMut(i, n) == -n <= i /\ i <= n

\* Python list indexing seq[i]: legal for -len <= i < len, else IndexError.
ListIndexOK(i, n) == -n <= i /\ i < n
ListGet(seq, i) == seq[(i % Len(seq)) + 1]

\* angle = 2 * pi / len(positions) * image_idx
Angle(i) == <<i, N>>

\* The image is named after the cursor has advanced.
DataElementMut(i, s) ==
    [image |-> i + 1,
     x |-> ListGet(Positions(s), i)[1],
     y |-> ListGet(Positions(s), i)[2],
     angle |-> Angle(i)]

\* data_element of _new_model.
DataElement(i, s) ==
    [image |-> i,
     x |-> ListGet(Positions(s), i)[1],
     y |-> ListGet(Positions(s), i)[2],
     angle |-> Angle(i)]

\* cv2.putText / _draw_pose on a canvas [shape, texts].
Draw(img, text) == Some([shape |-> Val(img).shape, texts |-> Val(img).texts \cup {text}])

ImageCaption(i) == "Image #" \o ToString(i + 1) \o " of " \o ToString(N)

\* State at line 46 of __init__, before the first _load_model().
Init ==
    /\ pc = "load"
    /\ exc = "none"
    /\ ret = "poll"
    /\ key = "none"
    /\ mode = DETECT
    /\ image_idx = 0
    /\ dataset = None
    /\ localizer = FALSE
    /\ scale_factor = None
    /\ view_shape = None
    /\ camera_image = None
    /\ view_image = None
    /\ window = None
    /\ dataset_file = None
    /\ image_files = [i \in 0..(N - 1) |-> None]
    /\ traceback = "none"
    /\ session = 0
    /\ writes = 0
    /\ trains = 0
    /\ train_pending = FALSE
    /\ trainer_failed = FALSE
    /\ object_size = ObjectSize
    /\ camera_frame = Unread

\* The same state for any of the configured object sizes.
InitSizes ==
    /\ pc = "load"
    /\ exc = "none"
    /\ ret = "poll"
    /\ key = "none"
    /\ mode = DETECT
    /\ image_idx = 0
    /\ dataset = None
    /\ localizer = FALSE
    /\ scale_factor = None
    /\ view_shape = None
    /\ camera_image = None
    /\ view_image = None
    /\ window = None
    /\ dataset_file = None
    /\ image_files = [i \in 0..(N - 1) |-> None]
    /\ traceback = "none"
    /\ session = 0
    /\ writes = 0
    /\ trains = 0
    /\ train_pending = FALSE
    /\ trainer_failed = FALSE
    /\ object_size \in ObjectSizes
    /\ camera_frame = Unread

\* The process ends: uncaught exception, sys.exit or break.
Terminate(why) == pc' = "done" /\ exc' = why

\* No try/except: the constructor's exception leaves _load_model.
LoadModelMut(ok) ==
    /\ pc = "load"
    /\ UNCHANGED <<trainer_failed, object_size, camera_frame>>
    /\ IF ok THEN
           /\ localizer' = TRUE
           /\ mode' = DETECT
           /\ pc' = ret
           /\ UNCHANGED <<exc, traceback>>
       ELSE
           /\ Terminate("LoadError")
           /\ traceback' = "load"
           /\ UNCHANGED <<localizer, mode>>
    /\ train_pending' = FALSE
    /\ UNCHANGED <<ret, key, image_idx, dataset, scale_factor, view_shape,
                   camera_image, view_image, window, dataset_file, image_files,
                   session, writes, trains>>

\* _load_model(); ok is whether predict.Localizer(cfg_path) constructs.
LoadModel(ok) ==
    /\ pc = "load"
    /\ UNCHANGED <<trainer_failed, object_size, camera_frame>>
    /\ localizer' = ok
    /\ mode' = IF ok THEN DETECT ELSE mode
    /\ traceback' = IF ok THEN traceback ELSE "load"
    /\ pc' = ret
    /\ train_pending' = FALSE
    /\ UNCHANGED <<exc, ret, key, image_idx, dataset, scale_factor, view_shape,
                   camera_image, view_image, window, dataset_file, image_files,
                   session, writes, trains>>

\* An existing dataset is kept.
NewSessionDatasetMut == IF dataset = None THEN Some(<< >>) ELSE dataset

\* dataset = [] on the new-session key.
NewSessionDataset == Some(<< >>)

\* The cursor is not reset.
NewSessionCursorMut == image_idx

\* image_idx = 0 on the new-session key.
NewSessionCursor == 0

\* run(), lines 50-58: poll one key and dispatch the session-level commands.

Poll(k) ==
    /\ pc = "poll"
    /\ UNCHANGED <<trainer_failed, object_size, camera_frame>>
    /\ key' = k
    /\ IF k = "q" THEN
           /\ Terminate("quit")
           /\ UNCHANGED <<ret, mode, image_idx, dataset, session, writes, trains,
                          train_pending>>
       ELSE IF k = "n" THEN
           /\ session < MaxSessions
           /\ mode' = NEW_MODEL
           /\ image_idx' = NewSessionCursor
           /\ dataset' = NewSessionDataset
           /\ session' = session + 1
           /\ writes' = 0
           /\ trains' = 0
           /\ pc' = "read"
           /\ UNCHANGED <<exc, ret, train_pending>>
       ELSE IF k = "r" THEN
           /\ pc' = "train"
           /\ ret' = "read"
           /\ train_pending' = TRUE
           /\ UNCHANGED <<exc, mode, image_idx, dataset, session, writes, trains>>
       ELSE
           /\ pc' = "read"
           /\ UNCHANGED <<exc, ret, mode, image_idx, dataset, session, writes, trains,
                          train_pending>>
    /\ traceback' = "none"
    /\ UNCHANGED <<localizer, scale_factor, view_shape, camera_image, view_image,
                   window, dataset_file, image_files>>

\* _train(), lines 177-179: the indicator is drawn with _put_text, which reads
\* camera_image.shape, and shown.
TrainBegin ==
    /\ pc = "train"
    /\ UNCHANGED <<trainer_failed, object_size, camera_frame>>
    /\ IF camera_image = None THEN
           /\ Terminate("AttributeError")
           /\ UNCHANGED <<view_image, window>>
       ELSE
           /\ view_image' = Draw(view_image, "Training, please wait...")
           /\ window' = Some(Val(view_image').texts)
           /\ pc' = "trainer"
           /\ UNCHANGED exc
    /\ UNCHANGED <<ret, key, mode, image_idx, dataset, localizer, scale_factor,
                   view_shape, camera_image, dataset_file, image_files, traceback,
                   session, writes, trains, train_pending>>

\* The exception is swallowed and the model reloaded.
TrainerRaisesMut == pc' = "load" /\ UNCHANGED exc

\* Where control goes when the external trainer raises: nothing in _train,
\* _new_model or run catches it.
TrainerRaises == Terminate("TrainerError")

\* _load_model() is not called after the trainer returns.
TrainerRunMut(ok) ==
    /\ pc = "trainer"
    /\ trainer_failed' = ~ok
    /\ UNCHANGED <<object_size, camera_frame>>
    /\ IF ok THEN pc' = ret /\ UNCHANGED exc ELSE TrainerRaises
    /\ UNCHANGED <<ret, key, mode, image_idx, dataset, localizer, scale_factor,
                   view_shape, camera_image, view_image, window, dataset_file,
                   image_files, traceback, session, writes, trains, train_pending>>

\* _train(), lines 180-183: the external trainer; ok is whether it returns.
TrainerRun(ok) ==
    /\ pc = "trainer"
    /\ trainer_failed' = ~ok
    /\ UNCHANGED <<object_size, camera_frame>>
    /\ IF ok THEN pc' = "load" /\ UNCHANGED exc ELSE TrainerRaises
    /\ UNCHANGED <<ret, key, mode, image_idx, dataset, localizer, scale_factor,
                   view_shape, camera_image, view_image, window, dataset_file,
                   image_files, traceback, session, writes, trains, train_pending>>

\* The scale and the canvas shape are recomputed on every frame.
ScaleUnsetMut == TRUE

\* self._scale_factor is None, line 71.
ScaleUnset == scale_factor = None

\* A missing frame is not skipped: the mode handler runs on the previous
\* image when there is one.
ReadFrameNoSkipMut(f) ==
    /\ pc = "read"
    /\ UNCHANGED <<trainer_failed, object_size>>
    /\ camera_frame' = f
    /\ IF f.kind = "none" THEN
           /\ pc' = IF camera_image = None THEN "poll"
                    ELSE IF mode = DETECT THEN "detect" ELSE "new_model"
           /\ UNCHANGED <<exc, scale_factor, view_shape, camera_image, view_image>>
       ELSE IF f.kind = "gray" THEN
           /\ Terminate("SystemExit")
           /\ UNCHANGED <<scale_factor, view_shape, camera_image, view_image>>
       ELSE
           LET sf == IF ScaleUnset THEN ScaleFactor(f.shape)
                     ELSE Val(scale_factor)
               vs == IF ScaleUnset THEN ViewShape(sf, f.shape)
                     ELSE Val(view_shape)
               cs == Resized(sf, f.shape)
           IN  /\ scale_factor' = Some(sf)
               /\ view_shape' = Some(vs)
               /\ camera_image' = Some(cs)
               /\ view_image' = Some([shape |-> vs, texts |-> {}])
               /\ IF Fits(vs, cs) THEN
                      /\ pc' = IF mode = DETECT THEN "detect" ELSE "new_model"
                      /\ UNCHANGED exc
                  ELSE Terminate("ValueError")
    /\ UNCHANGED <<ret, key, mode, image_idx, dataset, localizer, window,
                   dataset_file, image_files, traceback, session, writes, trains,
                   train_pending>>

\* run(), lines 60-80: read a frame, freeze the scale on the first colour
\* frame, resize and composite.
ReadFrame(f) ==
    /\ pc = "read"
    /\ UNCHANGED <<trainer_failed, object_size>>
    /\ camera_frame' = f
    /\ IF f.kind = "none" THEN
           /\ pc' = "poll"
           /\ UNCHANGED <<exc, scale_factor, view_shape, camera_image, view_image>>
       ELSE IF f.kind = "gray" THEN
           /\ Terminate("SystemExit")
           /\ UNCHANGED <<scale_factor, view_shape, camera_image, view_image>>
       ELSE
           LET sf == IF ScaleUnset THEN ScaleFactor(f.shape)
                     ELSE Val(scale_factor)
               vs == IF ScaleUnset THEN ViewShape(sf, f.shape)
                     ELSE Val(view_shape)
               cs == Resized(sf, f.shape)
           IN  /\ scale_factor' = Some(sf)
               /\ view_shape' = Some(vs)
               /\ camera_image' = Some(cs)
               /\ view_image' = Some([shape |-> vs, texts |-> {}])
               /\ IF Fits(vs, cs) THEN
                      /\ pc' = IF mode = DETECT THEN "detect" ELSE "new_model"
                      /\ UNCHANGED exc
                  ELSE Terminate("ValueError")
    /\ UNCHANGED <<ret, key, mode, image_idx, dataset, localizer, window,
                   dataset_file, image_files, traceback, session, writes, trains,
                   train_pending>>

\* The handler logs the failure and keeps the handle.
DetectMut(objs, ok) ==
    /\ pc = "detect"
    /\ UNCHANGED <<trainer_failed, object_size, camera_frame>>
    /\ localizer' = localizer
    /\ traceback' = IF localizer /\ ~ok THEN "predict" ELSE traceback
    /\ view_image' =
           LET vh == Draw(view_image, "Press n to train new model, q to quit")
               v0 == IF localizer /\ objs > 0 THEN Draw(vh, "pose") ELSE vh
           IN  IF ~localizer THEN Draw(v0, "No model loaded") ELSE v0
    /\ pc' = "show"
    /\ UNCHANGED <<exc, ret, key, mode, image_idx, dataset, scale_factor, view_shape,
                   camera_image, window, dataset_file, image_files, session, writes,
                   trains, train_pending>>

\* The 'No model loaded' test is made before the try block.
DetectCaptionFirstMut(objs, ok) ==
    /\ pc = "detect"
    /\ UNCHANGED <<trainer_failed, object_size, camera_frame>>
    /\ localizer' = (localizer /\ ok)
    /\ traceback' = IF localizer /\ ~ok THEN "predict" ELSE traceback
    /\ view_image' =
           LET vh == Draw(view_image, "Press n to train new model, q to quit")
               v0 == IF localizer /\ objs > 0 THEN Draw(vh, "pose") ELSE vh
               v1 == IF ~localizer THEN Draw(v0, "No model loaded") ELSE v0
           IN  IF localizer /\ ok
               THEN Draw(v1, "Detecting. Show object to the camera.")
               ELSE v1
    /\ pc' = "show"
    /\ UNCHANGED <<exc, ret, key, mode, image_idx, dataset, scale_factor, view_shape,
                   camera_image, window, dataset_file, image_files, session, writes,
                   trains, train_pending>>

\* predict is called without testing the handle; on None it raises.
DetectNoCheckMut(objs, ok) ==
    /\ pc = "detect"
    /\ UNCHANGED <<trainer_failed, object_size, camera_frame>>
    /\ localizer' = (localizer /\ ok)
    /\ traceback' = IF ~(localizer /\ ok) THEN "predict" ELSE traceback
    /\ view_image' =
           LET vh == Draw(view_image, "Press n to train new model, q to quit")
               v0 == IF localizer /\ objs > 0 THEN Draw(vh, "pose") ELSE vh
               v1 == IF localizer /\ ok
                     THEN Draw(v0, "Detecting. Show object to the camera.")
                     ELSE v0
           IN  IF ~localizer' THEN Draw(v1, "No model loaded") ELSE v1
    /\ pc' = "show"
    /\ UNCHANGED <<exc, ret, key, mode, image_idx, dataset, scale_factor, view_shape,
                   camera_image, window, dataset_file, image_files, session, writes,
                   trains, train_pending>>

\* run() line 83 and _detect(): objs is the number of objects whose marker
\* _draw_pose has drawn on the canvas when the try block is left, ok is
\* whether predict and the drawing of all its results return.
Detect(objs, ok) ==
    /\ pc = "detect"
    /\ UNCHANGED <<trainer_failed, object_size, camera_frame>>
    /\ localizer' = (localizer /\ ok)
    /\ traceback' = IF localizer /\ ~ok THEN "predict" ELSE traceback
    /\ view_image' =
           LET vh == Draw(view_image, "Press n to train new model, q to quit")
               v0 == IF localizer /\ objs > 0 THEN Draw(vh, "pose") ELSE vh
               v1 == IF localizer /\ ok
                     THEN Draw(v0, "Detecting. Show object to the camera.")
                     ELSE v0
           IN  IF ~localizer' THEN Draw(v1, "No model loaded") ELSE v1
    /\ pc' = "show"
    /\ UNCHANGED <<exc, ret, key, mode, image_idx, dataset, scale_factor, view_shape,
                   camera_image, window, dataset_file, image_files, session, writes,
                   trains, train_pending>>

\* The dataset is written and training started on every capture.
CompleteMut(i) == TRUE

\* image_idx == len(positions), line 167.
Complete(i) == i = N

\* _new_model(): the pose lookup, then either a capture or the captions.
NewModel ==
    /\ pc = "new_model"
    /\ UNCHANGED <<trainer_failed, object_size, camera_frame>>
    /\ IF ~ListIndexOK(image_idx, N) THEN
           /\ Terminate("IndexError")
           /\ UNCHANGED <<ret, image_idx, dataset, view_image, dataset_file,
                          image_files, writes, trains, train_pending>>
       ELSE IF key = " " THEN
           /\ image_files' = [image_files EXCEPT ![image_idx] =
                                 Some([session |-> session, capture |-> Len(Val(dataset))])]
           /\ dataset' = Some(Append(Val(dataset), DataElement(image_idx, Val(camera_image))))
           /\ image_idx' = image_idx + 1
           /\ view_image' = Draw(view_image, "pose")
           /\ IF Complete(image_idx') THEN
                  /\ dataset_file' = dataset'
                  /\ writes' = writes + 1
                  /\ trains' = trains + 1
                  /\ train_pending' = TRUE
                  /\ pc' = "train"
                  /\ ret' = "show"
              ELSE
                  /\ pc' = "show"
                  /\ UNCHANGED <<ret, dataset_file, writes, trains, train_pending>>
           /\ UNCHANGED exc
       ELSE
           /\ view_image' = Draw(Draw(Draw(Draw(view_image, "pose"),
                                 ImageCaption(image_idx)),
                                 "Place object to shown position and orientation"),
                                 "and press space")
           /\ pc' = "show"
           /\ UNCHANGED <<exc, ret, image_idx, dataset, dataset_file, image_files,
                          writes, trains, train_pending>>
    /\ UNCHANGED <<key, mode, localizer, scale_factor, view_shape, camera_image,
                   window, traceback, session>>

\* run() line 88: cv2.imshow('camera', view_image).
Show ==
    /\ pc = "show"
    /\ UNCHANGED <<trainer_failed, object_size, camera_frame>>
    /\ window' = Some(Val(view_image).texts)
    /\ pc' = "poll"
    /\ UNCHANGED <<exc, ret, key, mode, image_idx, dataset, localizer, scale_factor,
                   view_shape, camera_image, view_image, dataset_file, image_files,
                   traceback, session, writes, trains, train_pending>>

Next ==
    \/ \E ok \in BOOLEAN : LoadModel(ok)
    \/ \E k \in Keys : Poll(k)
    \/ TrainBegin
    \/ \E ok \in BOOLEAN : TrainerRun(ok)
    \/ \E f \in Frames : ReadFrame(f)
    \/ \E objs \in 0..MaxObjects, ok \in BOOLEAN : Detect(objs, ok)
    \/ NewModel
    \/ Show

Spec == Init /\ [][Next]_vars

\* The program for every configured object size.
SpecSizes == InitSizes /\ [][Next]_vars

\* ------------------------------------------------------------------ claims
\* Control is in the loop body of run(), outside _train and _load_model.
InLoop == pc \in {"poll", "read", "detect", "new_model", "show"}

\* Shapes the scaled camera image can have.
CameraShapes == {Resized(ScaleFactor(a), b) : a \in FrameShapes, b \in FrameShapes}

\* C1: after new-session, N confirmed captures and the return of the training
\* they start, the mode is Detect, whether the load succeeded or failed: the
\* loop never runs in Collect mode with the cursor at N.
C1_DetectAfterCompletedSession ==
    (InLoop /\ image_idx = N) => mode = DETECT

\* C2: whenever the collection-mode frame handler _new_model runs, the cursor
\* satisfies 0 <= image_idx < N.
C2_CursorInRangeInNewModel ==
    pc = "new_model" => (0 <= image_idx /\ image_idx < N)

\* C3: under any sequence of key events no sample beyond the N-th is appended:
\* the in-progress dataset never holds more than N samples and the cursor
\* never exceeds N.
C3_NoSampleBeyondN ==
    /\ image_idx <= N
    /\ dataset # None => Len(Val(dataset)) <= N

\* A confirmation reached _new_model with the cursor at N, after N captures.
C3_Witness ==
    /\ pc = "done" /\ exc = "IndexError" /\ key = " "
    /\ image_idx = N /\ Len(Val(dataset)) = N

\* C4: a failed construction of the detector is absorbed in _load_model: the
\* model handle becomes absent, no exception leaves the loader and control
\* returns to the caller.
C4_LoadFailureAbsorbed ==
    [][(pc = "load" /\ traceback # "load" /\ traceback' = "load")
        => (~localizer' /\ pc' = ret /\ pc' # "done" /\ exc' = "none")]_vars

\* The load after a completed collection failed and the loop went on.
C4_Witness ==
    /\ pc = "poll" /\ traceback = "load" /\ ~localizer /\ exc = "none"
    /\ image_idx = N

\* C5: in Detect mode a failure of predict is absorbed in _detect: the model
\* handle is demoted to absent, mode, cursor and dataset are unchanged, the
\* frame is still displayed and the loop goes on to the next iteration.
C5_PredictFailureAbsorbed ==
    [][/\ (pc = "detect" /\ traceback # "predict" /\ traceback' = "predict")
           => /\ ~localizer' /\ pc' = "show" /\ exc' = "none"
              /\ UNCHANGED <<mode, image_idx, dataset>>
       /\ pc = "show"
           => pc' = "poll" /\ window' = Some(Val(view_image).texts)]_vars

\* The frame in which the drawing of predict's results failed, after one
\* marker was drawn, has been displayed and the loop polls again.
C5_Witness ==
    /\ pc = "poll" /\ traceback = "predict" /\ ~localizer /\ mode = DETECT
    /\ window = Some(Val(view_image).texts)
    /\ {"pose", "No model loaded"} \subseteq Val(view_image).texts

\* C6: the dataset file is written only in the step in which the cursor
\* reaches N, that step is the call of _train, and a session has one write and
\* one such training exactly when its cursor is at N; in particular no write
\* during partial collection or on manual retrain.
C6_WrittenOnceThenTrain ==
    /\ [](writes = (IF image_idx = N THEN 1 ELSE 0) /\ trains = writes)
    /\ [][(dataset_file' # dataset_file \/ writes' > writes)
           => /\ pc = "new_model" /\ image_idx = N - 1 /\ image_idx' = N
              /\ writes' = 1 /\ trains' = 1
              /\ pc' = "train" /\ ret' = "show" /\ train_pending']_vars

\* The dataset file has just been written and _train is being entered.
C6_Witness ==
    /\ pc = "train" /\ ret = "show" /\ writes = 1 /\ trains = 1
    /\ dataset_file = dataset /\ session = MaxSessions

\* The dataset file has just been written by _new_model.
JustWritten == pc = "train" /\ ret = "show" /\ train_pending

\* C7: when the dataset file is written it holds exactly N samples, and the
\* k-th references image-k, written by the k-th capture of this session, with
\* the position and angle of calibration pose k.
C7_DatasetMatchesCaptures ==
    JustWritten =>
        /\ dataset_file # None
        /\ Len(Val(dataset_file)) = N
        /\ \A k \in 0..(N - 1) :
              LET e == Val(dataset_file)[k + 1]
              IN  /\ e.image = k
                  /\ image_files[k] = Some([session |-> session, capture |-> k])
                  /\ e.angle = <<k, N>>
                  /\ \E s \in CameraShapes : <<e.x, e.y>> = Positions(s)[k + 1]

\* The dataset of the second session started has just been written.
C7_Witness ==
    JustWritten /\ session = 2 /\ Len(Val(dataset_file)) = N

\* C8 as stated: every call of _train is followed by a call of _load_model,
\* regardless of the training outcome, also when the trainer fails: no
\* training is left without its load when the loop resumes or the trainer
\* has raised.
C8_LoadAfterEveryTrain ==
    (InLoop \/ trainer_failed) => ~train_pending

\* C8 amended: every call of _train whose trainer returns is followed by a
\* call of _load_model before the loop resumes; a training is left without
\* its load only when _train itself raised.
C8_LoadAfterTrainerReturns ==
    /\ InLoop => ~train_pending
    /\ (pc = "done" /\ train_pending) => exc \in {"TrainerError", "AttributeError"}

\* A manual retrain has trained and loaded, and the loop has resumed.
C8_Witness ==
    pc = "read" /\ key = "r" /\ ~train_pending /\ localizer /\ traceback = "none"

\* C9: an exception of the external trainer is not absorbed: it ends the
\* process, no further step is taken, and the model handle, mode, cursor and
\* dataset are as they were.
C9_TrainerFailureTerminates ==
    [][/\ trainer_failed'
           => /\ pc' = "done" /\ exc' = "TrainerError"
              /\ UNCHANGED <<localizer, mode, image_idx, dataset>>
       /\ pc # "done"]_vars

\* The trainer started by a completed collection raised.
C9_Witness ==
    trainer_failed /\ pc = "done" /\ ret = "show" /\ image_idx = N

\* C10: the mode goes from Detect to Collect only on the new-session key and
\* from Collect to Detect only when the cursor has reached N.
C10_ModeTransitions ==
    [][/\ (mode = DETECT /\ mode' = NEW_MODEL) => (pc = "poll" /\ key' = "n")
       /\ (mode = NEW_MODEL /\ mode' = DETECT) => image_idx = N]_vars

\* The captions on the canvas.
Texts == Val(view_image).texts

\* C11: every Detect-mode frame that goes to display with the model handle
\* absent (never loaded, load failed, or predict failed in this frame) has the
\* 'No model loaded' caption on the canvas, and the canvas displayed is that
\* canvas.
C11_NoModelCaption ==
    /\ [](pc = "show" /\ mode = DETECT /\ ~localizer => "No model loaded" \in Texts)
    /\ [][pc = "show" => window' = Some(Texts)]_vars

\* A frame whose predict failed is about to be displayed with the caption.
C11_Witness ==
    /\ pc = "show" /\ mode = DETECT /\ ~localizer /\ traceback = "predict"
    /\ "No model loaded" \in Texts

\* C12: the scale factor and the canvas shape are set by the first colour
\* frame and never change afterwards.
C12_ScaleFrozen ==
    /\ [](/\ (scale_factor = None) = (camera_image = None)
          /\ (view_shape = None) = (scale_factor = None))
    /\ [][/\ scale_factor # None
             => (scale_factor' = scale_factor /\ view_shape' = view_shape)
          /\ (scale_factor = None /\ scale_factor' # None)
             => (pc = "read" /\ camera_frame'.kind = "color")]_vars

\* A frame of another size than the first has been processed since the scale
\* was set, after a training and a reload.
C12_Witness ==
    /\ scale_factor = Some(<<6 * ObjectSize, 960>>)
    /\ camera_frame = [kind |-> "color", shape |-> <<480, 640>>]
    /\ pc = "show" /\ localizer /\ session = 1 /\ image_idx = N

\* C13 as stated, in exact arithmetic: for a first colour frame of height h
\* and width w and object size s the scale is 6s/max(h,w), the canvas height
\* floor(scale*h + 100) and the canvas width min(floor(scale*w) + 1, 640); a
\* 480x640 frame with s = 60 gives 0.5625, 370 and 361.
C13_ScaleAndCanvas ==
    [][(scale_factor = None /\ scale_factor' # None) =>
        LET h == camera_frame'.shape[1]
            w == camera_frame'.shape[2]
            s == object_size
            m == IF h >= w THEN h ELSE w
            sf == Val(scale_factor')
            width == (6 * s * w) \div m + 1
        IN  /\ sf[1] * m = 6 * s * sf[2]
            /\ Val(view_shape')[1] = (6 * s * h + 100 * m) \div m
            /\ Val(view_shape')[2] = IF width <= 640 THEN width ELSE 640
            /\ (h = 480 /\ w = 640 /\ s = 60)
                 => /\ 10000 * sf[1] = 5625 * sf[2]
                    /\ view_shape' = Some(<<370, 361>>)]_vars

\* num / den is a binary fraction, which a double holds exactly.
Dyadic(num, den) == \E j \in 0..14 : (num * 2^j) % den = 0

\* C13, amended: the scale is the double quotient of 6s by max(h,w), and the
\* canvas height int(scale*h + 100) and width min(int(scale*w) + 1, 640) are
\* taken in double arithmetic: each is the exact value floor(6s*h/max(h,w))
\* + 100, respectively min(floor(6s*w/max(h,w)) + 1, 640), or one less, and
\* one less only where the exact product is an integer and the scale is not
\* a binary fraction; a 480x640 frame with s = 60 gives 0.5625, 370 and 361.
C13_DoubleScaleAndCanvas ==
    [][(scale_factor = None /\ scale_factor' # None) =>
        LET h == camera_frame'.shape[1]
            w == camera_frame'.shape[2]
            s == object_size
            m == IF h >= w THEN h ELSE w
            sf == Val(scale_factor')
            height == (6 * s * h) \div m + 100
            width == (6 * s * w) \div m + 1
            vh == Val(view_shape')[1]
            vw == Val(view_shape')[2]
        IN  /\ sf[1] * m = 6 * s * sf[2]
            /\ vh \in {height - 1, height}
            /\ vw \in {Min(width - 1, 640), Min(width, 640)}
            /\ ((6 * s * h) % m # 0 \/ Dyadic(6 * s, m)) => vh = height
            /\ ((6 * s * w) % m # 0 \/ Dyadic(6 * s, m)) => vw = Min(width, 640)
            /\ (h = 480 /\ w = 640 /\ s = 60)
                 => /\ 10000 * sf[1] = 5625 * sf[2]
                    /\ view_shape' = Some(<<370, 361>>)]_vars

\* The scale has just been set by a 720x960 frame with object size 82: the
\* scale 0.5125 is no binary fraction, the double products fall just below
\* 369 and 492, and the canvas is 468 x 492, not 469 x 493.
C13_Witness ==
    /\ object_size = 82 /\ camera_frame.shape = <<720, 960>>
    /\ scale_factor = Some(<<492, 960>>)
    /\ view_shape = Some(<<468, 492>>)
    /\ camera_image = Some(<<369, 492>>)
    /\ window = None /\ pc = "detect"

\* C14: an iteration whose camera read yields no frame is skipped: no overlay
\* is drawn, nothing is captured or displayed, cursor and dataset are
\* unchanged and the loop polls again; a frame that is not a 3-channel image
\* ends the process, and nothing runs after the process has ended.
C14_CaptureFaults ==
    [][/\ (pc = "read" /\ camera_frame'.kind = "none")
           => /\ pc' = "poll" /\ exc' = "none"
              /\ UNCHANGED <<view_image, window, camera_image, image_idx, dataset,
                             dataset_file, image_files, mode, localizer>>
       /\ (pc = "read" /\ camera_frame'.kind = "gray")
           => (pc' = "done" /\ exc' = "SystemExit")
       /\ pc # "done"]_vars

\* The confirm key was polled in an iteration of a collection whose read gave
\* no frame: the iteration was skipped with two samples still held.
C14_Witness ==
    /\ pc = "poll" /\ camera_frame.kind = "none" /\ key = " "
    /\ mode = NEW_MODEL /\ image_idx = 2 /\ Len(Val(dataset)) = 2

\* The calibration pose _new_model computes for cursor i on the current frame.
PoseAt(i) ==
    LET e == DataElement(i, Val(camera_image)) IN <<e.x, e.y, e.angle>>

\* C15 as stated: for every cursor value the calibration pose is a function of
\* the canvas dimensions and the object size alone: while these are unchanged
\* and the process runs, the pose of every cursor value is unchanged.
C15_PoseFromCanvas ==
    [][(camera_image # None /\ pc' # "done"
        /\ view_shape' = view_shape /\ object_size' = object_size)
        => \A i \in 0..(N - 1) : PoseAt(i)' = PoseAt(i)]_vars

\* C15 amended: the pose is a function of the scaled camera image's
\* dimensions (rows h, columns w) and the object size s alone: the centre
\* (w/2, h/2), then (s, s), (w - s, s), (w - s, h - s), (s, h - s), with angle
\* i fifths of a turn.  Stated of the sample every capture appends
\* (coordinates doubled).
C15_PoseFromCameraImage ==
    [][(dataset # None /\ dataset' # None
        /\ Len(Val(dataset')) = Len(Val(dataset)) + 1) =>
        LET e == Val(dataset')[Len(Val(dataset'))]
            i == image_idx
            h == Val(camera_image)[1]
            w == Val(camera_image)[2]
            s == object_size
        IN  /\ e.angle = <<i, 5>>
            /\ i \in 0..4
            /\ i = 0 => (e.x = w /\ e.y = h)
            /\ i = 1 => (e.x = 2 * s /\ e.y = 2 * s)
            /\ i = 2 => (e.x = 2 * (w - s) /\ e.y = 2 * s)
            /\ i = 3 => (e.x = 2 * (w - s) /\ e.y = 2 * (h - s))
            /\ i = 4 => (e.x = 2 * s /\ e.y = 2 * (h - s))]_vars

\* A completed dataset whose poses were taken on camera images of two sizes
\* under one canvas: pose 0 on a 180x240 image, pose 2 on a 270x360 image.
C15_Witness ==
    /\ pc = "train" /\ dataset # None /\ Len(Val(dataset)) = N
    /\ view_shape = Some(<<370, 361>>)
    /\ Val(dataset)[1].x = 240 /\ Val(dataset)[1].y = 180
    /\ Val(dataset)[3].x = 2 * (360 - 60) /\ Val(dataset)[3].y = 2 * 60

\* C16: the new-session key, in Detect or anywhere in a collection, sets the
\* mode to Collect, the cursor to 0 and the in-progress dataset to empty, and
\* leaves the model handle, the scale factor and the files on disk unchanged.
C16_NewSessionResets ==
    [][(pc = "poll" /\ key' = "n")
        => /\ mode' = NEW_MODEL /\ image_idx' = 0 /\ dataset' = Some(<< >>)
           /\ pc' = "read"
           /\ UNCHANGED <<localizer, scale_factor, view_shape, dataset_file,
                          image_files>>]_vars

\* The key was pressed a second time, with images of an unfinished first
\* session on disk.
C16_Witness ==
    /\ pc = "read" /\ key = "n" /\ session = 2
    /\ mode = NEW_MODEL /\ image_idx = 0 /\ dataset = Some(<< >>)
    /\ image_files[1] # None /\ image_files[4] = None /\ dataset_file = None

\* The 'Detecting' caption, drawn only after predict has returned.
Detecting == "Detecting. Show object to the camera."

\* C17: the model handle changes only in a load attempt, as a whole, or by
\* demotion in a failed predict; predict is invoked only by the Detect handler,
\* in Detect mode, on a present handle, never during training or loading.
C17_HandleAndPredict ==
    [][/\ localizer' # localizer
           => \/ pc = "load"
              \/ (pc = "detect" /\ localizer /\ traceback' = "predict")
       /\ (\/ (traceback' = "predict" /\ traceback # "predict")
           \/ (view_image' # None /\ Detecting \in Val(view_image').texts
               /\ (view_image = None \/ Detecting \notin Val(view_image).texts)))
           => (pc = "detect" /\ mode = DETECT /\ localizer)]_vars

\* predict has run on the handle loaded after a completed collection.
C17_Witness ==
    /\ pc = "show" /\ mode = DETECT /\ localizer /\ Detecting \in Texts
    /\ session = 1 /\ image_idx = N

\* C18: whenever the mode is Collect the in-progress dataset is present and
\* its length equals the cursor.
C18_DatasetLengthIsCursor ==
    mode = NEW_MODEL => (dataset # None /\ Len(Val(dataset)) = image_idx)

\* A second collection goes on after a manual retrain whose load failed.
C18_Witness ==
    /\ pc = "new_model" /\ mode = NEW_MODEL /\ key = "r" /\ traceback = "load"
    /\ session = 2 /\ image_idx = 3 /\ Len(Val(dataset)) = 3

\* C19: whenever training is started a scaled camera image and a canvas from
\* an earlier valid frame exist, so that the indicator can be drawn.
C19_ImageExistsWhenTraining ==
    pc = "train" => (camera_image # None /\ view_image # None)

\* C20: for every frame size and object size the frozen canvas is at least as
\* tall and as wide as the scaled camera image, so that compositing succeeds.
C20_CanvasHoldsScaledFrame ==
    camera_image # None =>
        /\ Val(camera_image)[1] <= Val(view_shape)[1]
        /\ Val(camera_image)[2] <= Val(view_shape)[2]
====
